---- MODULE Spec2Model ----
(***************************************************************************)
(* xl2pl: load_excel (spreadsheet sheet -> table) and save_excel (table -> *)
(* spreadsheet sheet), src/xl2pl.py.                                       *)
(*                                                                         *)
(* The spreadsheet library (openpyxl) and the table library (polars) are   *)
(* modelled at their interface: a workbook is a sequence of named sheets,  *)
(* a sheet is a rectangular grid of cell values, opening and saving a      *)
(* document may fail.  Texts are sequences of characters so that the       *)
(* header normalisation and the regular-expression prefix match are        *)
(* computed, not assumed.                                                  *)
(***************************************************************************)
EXTENDS Integers, Sequences, FiniteSets, TLC

\* ------------------------------------------------------------------ bounds
MaxRows == 3        \* rows of a sheet
Width == 2          \* columns of a sheet
MaxSkip == 2        \* largest skip_rows
MaxFoot == 2        \* largest skip_foot
MaxTableRows == 2   \* rows of an exported table

\* ------------------------------------------------------------------ values
Unset == -1                          \* an optional int argument left at None
None == <<"None">>                   \* an empty cell (cell.value is None)
Name == <<"N", "a", "m", "e">>
ColName == <<"C", "o", "l", " ", " ", "N", "\n">>
Texts == {Name, ColName}
Values == {None} \cup Texts
Whitespace == {" ", "\n", "\t"}

Min(a, b) == IF a < b THEN a ELSE b

\* re_w = re.compile(r"\s+"); re_w.sub(" ", s): every run of whitespace
\* becomes one space.
RECURSIVE DropSpace(_)
DropSpace(s) ==
    IF s # <<>> /\ Head(s) \in Whitespace THEN DropSpace(Tail(s)) ELSE s

RECURSIVE re_w_sub(_)
re_w_sub(s) ==
    IF s = <<>> THEN <<>>
    ELSE IF Head(s) \in Whitespace THEN <<" ">> \o re_w_sub(DropSpace(s))
    ELSE <<Head(s)>> \o re_w_sub(Tail(s))

\* str.strip(): leading and trailing whitespace removed.
RECURSIVE DropTrailing(_)
DropTrailing(s) ==
    IF s # <<>> /\ s[Len(s)] \in Whitespace
    THEN DropTrailing(SubSeq(s, 1, Len(s) - 1))
    ELSE s

strip(s) == DropTrailing(DropSpace(s))

\* re_w.sub(" ", old).strip() of one header field.
NormHeader(old) == strip(re_w_sub(old))

\* re.match(pattern, col) for a literal pattern: col starts with pattern.
re_match(pattern, col) ==
    /\ Len(pattern) <= Len(col)
    /\ SubSeq(col, 1, Len(pattern)) = pattern

\* ------------------------------------------------------------- predicates
\* A predicate argument (zero_cell, take_cols): None, a string, a sequence
\* of strings, a callable (given by the set of values it accepts), or a
\* value of another type.
Pred(kind, s, set) == [kind |-> kind, s |-> s, set |-> set]
PredNone == Pred("none", <<>>, {})
PredBad == Pred("bad", <<>>, {})

\* test_cell(cell), applied to cell.value.
test_cell(zc, v) ==
    CASE zc.kind = "none" -> TRUE
      [] zc.kind = "str" -> v \in {zc.s}
      [] zc.kind = "seq" -> v \in zc.set
      [] OTHER -> v \in zc.set

\* test_cols(col), applied to a header cell's value.
test_cols(tc, v) ==
    CASE tc.kind = "none" -> TRUE
      [] tc.kind = "str" -> re_match(tc.s, v)
      [] tc.kind = "seq" -> v \in tc.set
      [] OTHER -> v \in tc.set

\* re.match raises TypeError on a value that is not a string.
test_cols_raises(tc, v) == tc.kind = "str" /\ v = None

\* ------------------------------------------------------------------ inputs
Source(kind, suffix, exists) == [kind |-> kind, suffix |-> suffix, exists |-> exists]
Stream == Source("stream", "", TRUE)
Sources ==
    {Source(k, s, e) : k \in {"str", "Path"},
                       s \in {".xlsx", ".xls", ".csv"}, e \in BOOLEAN}
    \cup {Stream, Source("other", "", FALSE)}

Selector(kind, i, name) == [kind |-> kind, i |-> i, name |-> name]
Selectors ==
    {Selector("int", i, "") : i \in 0..2}
    \cup {Selector("str", 0, n) : n \in {"S1", "S2", "S9"}}
    \cup {Selector("other", 0, "")}

Rows == [1..Width -> Values]
GridsOf(n) == UNION {[1..k -> Rows] : k \in 0..n}
Grids == GridsOf(MaxRows)
Sheet(name, grid) == [name |-> name, grid |-> grid]

DefaultGrid == <<<<Name, ColName>>, <<ColName, Name>>>>
OneSheetBooks == {<<Sheet("S1", g)>> : g \in Grids}
TwoSheetBooks ==
    {<<Sheet("S1", g1), Sheet("S2", g2)>> : g1 \in GridsOf(1), g2 \in GridsOf(1)}

VARIABLES
    \* load_excel: arguments
    file, sheet, zero_cell, skip_rows, skip_foot, take_cols,
    \* load_excel: environment
    canOpen, book,
    \* load_excel: locals
    pc, path, bookOpen, ws, next_row, i_row, i_col, read_immediately,
    head_read, idxs, rows, taken, written, table, err,
    \* the documents stored at the destination paths
    fs,
    \* save_excel: arguments
    dest, df, sheet_name, if_sheet_exists,
    \* save_excel: locals, and what the call did to the workbook
    spc, wb, wbOpen, ret, serr, before, deleted, created, saved

loadArgs == <<file, sheet, zero_cell, skip_rows, skip_foot, take_cols>>
loadEnv == <<canOpen, book>>
scanVars == <<next_row, i_row, i_col, read_immediately, head_read, idxs, rows, taken>>
loadVars ==
    <<loadArgs, loadEnv, pc, path, bookOpen, ws, scanVars, written, table, err>>

saveArgs == <<dest, df, sheet_name, if_sheet_exists>>
saveLocals == <<spc, wb, wbOpen, ret, serr, before, deleted, created, saved>>
saveVars == <<fs, saveArgs, saveLocals>>

vars == <<loadVars, saveVars>>

NoTable == [columns |-> <<>>, data |-> <<>>]

\* The locals of load_excel before its first statement.
LoadLocalsInit ==
    /\ pc = "validate"
    /\ path = "None"
    /\ bookOpen = FALSE
    /\ ws = 0
    /\ next_row = 0
    /\ i_row = 0
    /\ i_col = 0
    /\ read_immediately = FALSE
    /\ head_read = FALSE
    /\ idxs = <<>>
    /\ rows = <<>>
    /\ taken = <<>>
    /\ written = <<>>
    /\ table = NoTable
    /\ err = "none"

\* Calls that differ in the source.
SourceInputs ==
    /\ file \in Sources
    /\ sheet = Selector("int", 0, "")
    /\ zero_cell = PredNone
    /\ take_cols = PredNone
    /\ skip_rows = Unset
    /\ skip_foot = Unset
    /\ canOpen \in BOOLEAN
    /\ book = <<Sheet("S1", DefaultGrid)>>

\* Calls that differ in the shape of the two predicates.
PredicateInputs ==
    /\ file = Stream
    /\ sheet = Selector("int", 0, "")
    /\ zero_cell \in {PredNone, PredBad, Pred("str", Name, {}),
                      Pred("seq", <<>>, {Name, ColName}),
                      Pred("callable", <<>>, {None})}
    /\ take_cols \in {PredNone, PredBad, Pred("str", <<"N">>, {}),
                      Pred("seq", <<>>, {ColName}),
                      Pred("callable", <<>>, {Name})}
    /\ skip_rows = Unset
    /\ skip_foot = Unset
    /\ canOpen = TRUE
    /\ book \in {<<Sheet("S1", g)>> : g \in GridsOf(2)}

\* Calls that differ in the sheet selector and the document's sheets.
SheetInputs ==
    /\ file = Stream
    /\ sheet \in Selectors
    /\ zero_cell = PredNone
    /\ take_cols = PredNone
    /\ skip_rows = Unset
    /\ skip_foot = Unset
    /\ canOpen = TRUE
    /\ book \in TwoSheetBooks \cup {<<Sheet("S1", DefaultGrid)>>}

\* Calls that differ in the sheet's cells and the scan's arguments.
ScanInputs ==
    /\ file = Stream
    /\ sheet = Selector("int", 0, "")
    /\ zero_cell \in {PredNone, Pred("str", Name, {})}
    /\ take_cols \in {PredNone, Pred("seq", <<>>, {Name}), Pred("str", <<"C">>, {})}
    /\ skip_rows \in {Unset} \cup 0..MaxSkip
    /\ skip_foot \in {Unset} \cup 0..MaxFoot
    /\ canOpen = TRUE
    /\ book \in OneSheetBooks

\* The documented scenario: junk row, header, two data rows, a TOTAL row.
ScenarioGrid ==
    << <<<<"j", "u", "n", "k">>, None>>,
       <<Name, <<"A", "g", "e">>>>,
       <<<<"A", "n", "n">>, <<"3", "0">>>>,
       <<<<"B", "o", "b">>, <<"4", "0">>>>,
       <<<<"T", "O", "T", "A", "L">>, None>> >>

ScenarioInputs ==
    /\ file = Stream
    /\ sheet = Selector("int", 0, "")
    /\ zero_cell = Pred("str", Name, {})
    /\ take_cols = PredNone
    /\ skip_rows = Unset
    /\ skip_foot = 1
    /\ canOpen = TRUE
    /\ book = <<Sheet("S1", ScenarioGrid)>>

LoadInputs ==
    SourceInputs \/ PredicateInputs \/ SheetInputs \/ ScanInputs \/ ScenarioInputs

\* ------------------------------------------------------------- load_excel
\* Lines 57-76: the error the source check raises, "none" when it passes.
FileError(f) ==
    IF f.kind = "stream" THEN "none"
    ELSE IF f.kind # "str" THEN "ValueError:file"
    ELSE IF f.suffix \notin {"xlsx", "xls"} THEN "ValueError:suffix"
    ELSE IF ~f.exists THEN "ValueError:not found"
    ELSE "none"

\* Lines 78-98: the error the predicate dispatch raises.
PredError(zc, tc) ==
    IF zc.kind = "bad" THEN "ValueError:test_cell"
    ELSE IF tc.kind = "bad" THEN "ValueError:take_cols"
    ELSE "none"

ArgError(f, zc, tc) ==
    IF FileError(f) # "none" THEN FileError(f) ELSE PredError(zc, tc)

\* Lines 58-64: what `path` is bound to after the source check.
PathOf(f) ==
    IF f.kind = "stream" THEN "<file-like>"
    ELSE IF f.kind = "str" THEN "Path"
    ELSE "None"

Raise(e) ==
    /\ pc' = "error"
    /\ err' = e

Validate ==
    /\ pc = "validate"
    /\ path' = PathOf(file)
    /\ IF ArgError(file, zero_cell, take_cols) # "none"
       THEN Raise(ArgError(file, zero_cell, take_cols))
       ELSE /\ pc' = "open"
            /\ err' = err
    /\ UNCHANGED <<loadArgs, loadEnv, bookOpen, ws, scanVars, written, table>>
    /\ UNCHANGED saveVars

\* Lines 103-111: the flags and oxl.open(path, read_only=True, data_only=True).
\* Whether the library opens what it is given is the environment's choice.
Open ==
    /\ pc = "open"
    /\ read_immediately' = (zero_cell.kind = "none")
    /\ IF canOpen
       THEN /\ bookOpen' = TRUE
            /\ pc' = "resolve"
            /\ err' = err
       ELSE /\ bookOpen' = bookOpen
            /\ Raise("RuntimeError:open")
    /\ UNCHANGED <<loadArgs, loadEnv, path, ws, next_row, i_row, i_col,
                   head_read, idxs, rows, taken, written, table>>
    /\ UNCHANGED saveVars

\* Lines 117-122: the sheet the selector is resolved to (1-based position in
\* the book), 0 when the lookup raises.
SheetNamed(b, n) ==
    IF \E k \in 1..Len(b) : b[k].name = n
    THEN CHOOSE k \in 1..Len(b) : b[k].name = n
    ELSE 0

ResolveSheet(b, sel) ==
    CASE sel.kind = "int" -> IF Len(b) >= 1 THEN 1 ELSE 0
      [] sel.kind = "str" -> SheetNamed(b, sel.name)
      [] OTHER -> 0

\* iter_rows(min_row=(skip_rows or 0)): min_row is the 1-based index of the
\* first row yielded, and a min_row of 0 is taken as 1.
FirstRow(k) ==
    IF k = Unset \/ k = 0 THEN 1 ELSE k

\* Lines 115-130: sheet resolution inside `with closing(book)`.
Resolve ==
    /\ pc = "resolve"
    /\ IF ResolveSheet(book, sheet) = 0
       THEN /\ Raise("ValueError:sheet")
            /\ bookOpen' = FALSE
            /\ UNCHANGED <<ws, next_row>>
       ELSE /\ ws' = ResolveSheet(book, sheet)
            /\ next_row' = FirstRow(skip_rows)
            /\ pc' = "scan"
            /\ UNCHANGED <<bookOpen, err>>
    /\ UNCHANGED <<loadArgs, loadEnv, path, i_row, i_col, read_immediately,
                   head_read, idxs, rows, taken, written, table>>
    /\ UNCHANGED saveVars

grid == book[ws].grid

\* Lines 133-137: the 0-based index of the first cell of the row that
\* satisfies test_cell, -1 when there is none.
FirstMatch(zc, row) ==
    IF \E i \in 1..Len(row) : test_cell(zc, row[i])
    THEN (CHOOSE i \in 1..Len(row) :
              /\ test_cell(zc, row[i])
              /\ \A j \in 1..(i - 1) : ~test_cell(zc, row[j])) - 1
    ELSE -1

\* Lines 144-146: the column indices chosen on the header row.
RECURSIVE HeaderIdxsFrom(_, _, _, _)
HeaderIdxsFrom(tc, row, col, i) ==
    IF i >= Len(row) THEN <<>>
    ELSE (IF test_cols(tc, row[i + 1]) THEN <<col + i>> ELSE <<>>)
         \o HeaderIdxsFrom(tc, row, col, i + 1)

HeaderIdxs(tc, row, col) == HeaderIdxsFrom(tc, row, col, 0)

\* Line 148: data = [row[i].value for i in idxs].
RowData(row, ix) == [k \in 1..Len(ix) |-> row[ix[k] + 1]]

\* Line 151: data = [re_w.sub(" ", old).strip() for old in data].
HeaderData(data) == [k \in 1..Len(data) |-> NormHeader(data[k])]

\* Lines 130-156: one iteration of the loop over the sheet's rows.
ScanRow ==
    /\ pc = "scan"
    /\ next_row <= Len(grid)
    /\ LET row == grid[next_row]
           m == FirstMatch(zero_cell, row)
           found == read_immediately \/ m >= 0
           col == IF ~read_immediately /\ m >= 0 THEN m ELSE i_col
           ix == IF head_read THEN idxs ELSE HeaderIdxs(take_cols, row, col)
           data == RowData(row, ix)
       IN  /\ i_row' = i_row + 1
           /\ i_col' = col
           /\ read_immediately' = found
           /\ IF ~found
              THEN \* line 140: continue
                   /\ next_row' = next_row + 1
                   /\ UNCHANGED <<pc, err, bookOpen, head_read, idxs, rows, taken>>
              ELSE IF row[col + 1] = None
              THEN \* line 156: break, and the with block closes the book
                   /\ pc' = "foot"
                   /\ bookOpen' = FALSE
                   /\ UNCHANGED <<err, next_row, head_read, idxs, rows, taken>>
              ELSE IF ~head_read /\ \E i \in 1..Len(row) : test_cols_raises(take_cols, row[i])
              THEN /\ Raise("TypeError")
                   /\ bookOpen' = FALSE
                   /\ UNCHANGED <<next_row, head_read, idxs, rows, taken>>
              ELSE IF \E k \in 1..Len(ix) : ix[k] >= Len(row)
              THEN /\ Raise("IndexError")
                   /\ bookOpen' = FALSE
                   /\ idxs' = ix
                   /\ UNCHANGED <<next_row, head_read, rows, taken>>
              ELSE IF ~head_read /\ \E k \in 1..Len(data) : data[k] = None
              THEN /\ Raise("TypeError")
                   /\ bookOpen' = FALSE
                   /\ idxs' = ix
                   /\ UNCHANGED <<next_row, head_read, rows, taken>>
              ELSE /\ idxs' = ix
                   /\ head_read' = TRUE
                   /\ rows' = Append(rows, IF head_read THEN data ELSE HeaderData(data))
                   /\ taken' = Append(taken, next_row)
                   /\ next_row' = next_row + 1
                   /\ UNCHANGED <<pc, err, bookOpen>>
    /\ UNCHANGED <<loadArgs, loadEnv, path, ws, written, table>>
    /\ UNCHANGED saveVars

\* Line 130: the iteration is exhausted; the with block closes the book.
ScanEnd ==
    /\ pc = "scan"
    /\ next_row > Len(grid)
    /\ pc' = "foot"
    /\ bookOpen' = FALSE
    /\ UNCHANGED <<loadArgs, loadEnv, path, ws, scanVars, written, table, err>>
    /\ UNCHANGED saveVars

\* Line 158: the condition under which the footer guard raises.
FootGuardRaises(sf, n) ==
    sf # Unset /\ n < 2 /\ sf > n - 1

\* Lines 158-161.
FootGuard ==
    /\ pc = "foot"
    /\ IF FootGuardRaises(skip_foot, Len(rows))
       THEN Raise("ValueError:skip_foot")
       ELSE /\ pc' = "write"
            /\ err' = err
    /\ UNCHANGED <<loadArgs, loadEnv, path, bookOpen, ws, scanVars, written, table>>
    /\ UNCHANGED saveVars

\* Line 163: rows if skip_foot is None else rows[:skip_foot].
Trimmed(rs, sf) ==
    IF sf = Unset THEN rs ELSE SubSeq(rs, 1, Min(sf, Len(rs)))

\* csv.writer writes None as the empty string; every other value as its text.
CsvField(v) == IF v = None THEN <<>> ELSE v
CsvRow(r) == [k \in 1..Len(r) |-> CsvField(r[k])]

\* Lines 163-166: serialization and pl.read_csv, which takes the first line
\* as the column names and raises on an empty input.
Write ==
    /\ pc = "write"
    /\ written' = Trimmed(rows, skip_foot)
    /\ IF written' = <<>>
       THEN /\ Raise("NoDataError")
            /\ table' = table
       ELSE /\ pc' = "done"
            /\ err' = err
            /\ table' = [columns |-> CsvRow(written'[1]),
                         data |-> [k \in 1..(Len(written') - 1) |-> CsvRow(written'[k + 1])]]
    /\ UNCHANGED <<loadArgs, loadEnv, path, bookOpen, ws, scanVars>>
    /\ UNCHANGED saveVars

NextLoad ==
    \/ Validate
    \/ Open
    \/ Resolve
    \/ ScanRow
    \/ ScanEnd
    \/ FootGuard
    \/ Write

\* ------------------------------------------------------------- save_excel
\* A destination: a str or Path with its Path.suffix, or a binary stream.
Dest(kind, p, suffix) == [kind |-> kind, p |-> p, suffix |-> suffix]
Paths == {"a.xlsx", "b.xlsm"}
Dests ==
    {Dest("str", "a.xlsx", ".xlsx"), Dest("str", "b.xlsm", ".xlsm"),
     Dest("Path", "b.xlsm", ".xlsm"), Dest("stream", "a.xlsx", "")}

\* A table: its column names and its rows, each a tuple of values.
TableValues == {"1", "2"}
TableRows == {<<v>> : v \in TableValues}
Tables ==
    {[columns |-> <<"k">>, data |-> d] :
        d \in UNION {[1..n -> TableRows] : n \in 0..MaxTableRows}}

NoName == ""                       \* sheet_name left at None
SheetNames == {NoName, "Data"}
Policies == {"overwrite", "assert", "skip", "replace"}

\* A stored document: whether the file exists, and its sheets in order.
Missing == [exists |-> FALSE, sheets |-> <<>>]
Stored(sheets) == [exists |-> TRUE, sheets |-> sheets]
WSheet(title, rs) == [name |-> title, rows |-> rs]
SeedDoc ==
    Stored(<<WSheet("Sheet", <<<<"k">>, <<"1">>>>), WSheet("Data", <<<<"k">>, <<"2">>>>)>>)

names(sheets) == {sheets[k].name : k \in 1..Len(sheets)}

\* No call of save_excel is in progress.
IdleFrame ==
    [dest |-> Dest("stream", "a.xlsx", ""),
     df |-> [columns |-> <<"k">>, data |-> <<>>],
     sheet_name |-> NoName,
     if_sheet_exists |-> "overwrite"]

SaveIdle ==
    /\ dest = IdleFrame.dest
    /\ df = IdleFrame.df
    /\ sheet_name = IdleFrame.sheet_name
    /\ if_sheet_exists = IdleFrame.if_sheet_exists
    /\ spc = "idle"
    /\ wb = <<>>
    /\ wbOpen = FALSE
    /\ ret = "none"
    /\ serr = "none"
    /\ before = Missing
    /\ deleted = FALSE
    /\ created = FALSE
    /\ saved = FALSE

\* A call of save_excel: the arguments are bound, the locals are fresh.
CallSave ==
    /\ spc = "idle"
    /\ dest' \in Dests
    /\ df' \in Tables
    /\ sheet_name' \in SheetNames
    /\ if_sheet_exists' \in Policies
    /\ spc' = "validate"
    /\ wb' = <<>>
    /\ wbOpen' = FALSE
    /\ ret' = "none"
    /\ serr' = "none"
    /\ before' = fs[dest'.p]
    /\ deleted' = FALSE
    /\ created' = FALSE
    /\ saved' = FALSE
    /\ UNCHANGED fs
    /\ UNCHANGED loadVars

SRaise(e) ==
    /\ spc' = "raised"
    /\ serr' = e

\* Lines 188-198: the error the destination check raises, "none" when it
\* passes.
DestError(d) ==
    IF d.kind \notin {"str", "Path"} THEN "ValueError:path"
    ELSE IF d.suffix = ".xlsx" THEN "ValueError:suffix"
    ELSE "none"

SaveValidate ==
    /\ spc = "validate"
    /\ IF DestError(dest) # "none"
       THEN SRaise(DestError(dest))
       ELSE /\ spc' = "acquire"
            /\ serr' = serr
    /\ UNCHANGED <<fs, saveArgs, wb, wbOpen, ret, before, deleted, created, saved>>
    /\ UNCHANGED loadVars

\* Lines 200-206: a new write-only workbook, or the stored document opened.
Acquire ==
    /\ spc = "acquire"
    /\ wb' = IF fs[dest.p].exists THEN fs[dest.p].sheets ELSE <<>>
    /\ wbOpen' = TRUE
    /\ spc' = "conflict"
    /\ UNCHANGED <<fs, saveArgs, ret, serr, before, deleted, created, saved>>
    /\ UNCHANGED loadVars

\* Line 208: sheet_name or "Sheet".
TargetName(n) == IF n = NoName THEN "Sheet" ELSE n

\* The sheet is left in the workbook.
DeleteSheet_Kept(sheets, title) == sheets

\* Line 220: del wb[sheet_name].
DeleteSheet(sheets, title) ==
    SelectSeq(sheets, LAMBDA s : s.name # title)

\* Lines 207-227: the conflict policy, applied when the name collides.
Conflict ==
    /\ spc = "conflict"
    /\ LET title == TargetName(sheet_name)
       IN  IF title \notin names(wb)
           THEN /\ spc' = "write"
                /\ UNCHANGED <<wb, wbOpen, ret, serr, deleted>>
           ELSE IF if_sheet_exists \notin {"overwrite", "assert", "skip"}
           THEN /\ SRaise("ValueError:if_sheet_exists")
                /\ wbOpen' = FALSE
                /\ UNCHANGED <<wb, ret, deleted>>
           ELSE IF if_sheet_exists = "overwrite"
           THEN /\ wb' = DeleteSheet(wb, title)
                /\ deleted' = TRUE
                /\ spc' = "write"
                /\ UNCHANGED <<wbOpen, ret, serr>>
           ELSE IF if_sheet_exists = "assert"
           THEN /\ SRaise("AssertionError")
                /\ wbOpen' = FALSE
                /\ UNCHANGED <<wb, ret, deleted>>
           ELSE /\ spc' = "returned"
                /\ ret' = "df"
                /\ wbOpen' = FALSE
                /\ UNCHANGED <<wb, serr, deleted>>
    /\ UNCHANGED <<fs, saveArgs, before, created, saved>>
    /\ UNCHANGED loadVars

\* wb.create_sheet(title): a title already in use gets a numeric suffix.
CreateTitle(sheets, title) ==
    IF title \in names(sheets) THEN title \o "1" ELSE title

\* Lines 231-236: the header (the first row's keys) and one row of values per
\* table row; nothing at all for a table without rows.
Materialize(t) ==
    IF t.data = <<>> THEN <<>> ELSE <<t.columns>> \o t.data

\* Lines 229-236: the new sheet and its rows.
WriteSheet ==
    /\ spc = "write"
    /\ wb' = Append(wb, WSheet(CreateTitle(wb, TargetName(sheet_name)), Materialize(df)))
    /\ created' = TRUE
    /\ spc' = "save"
    /\ UNCHANGED <<fs, saveArgs, wbOpen, ret, serr, before, deleted, saved>>
    /\ UNCHANGED loadVars

\* Lines 237-244: wb.save(path), which may fail; the workbook is closed
\* either way.
Save ==
    /\ spc = "save"
    /\ wbOpen' = FALSE
    /\ \/ /\ fs' = [fs EXCEPT ![dest.p] = Stored(wb)]
          /\ saved' = TRUE
          /\ spc' = "returned"
          /\ ret' = "df"
          /\ serr' = serr
       \/ /\ SRaise("RuntimeError:save")
          /\ UNCHANGED <<fs, saved, ret>>
    /\ UNCHANGED <<saveArgs, wb, before, deleted, created>>
    /\ UNCHANGED loadVars

\* Lines 227, 244 and every raise: control is back with the caller and the
\* call's frame is gone; the stored documents stay.
Leave ==
    /\ spc \in {"returned", "raised"}
    /\ dest' = IdleFrame.dest
    /\ df' = IdleFrame.df
    /\ sheet_name' = IdleFrame.sheet_name
    /\ if_sheet_exists' = IdleFrame.if_sheet_exists
    /\ spc' = "idle"
    /\ wb' = <<>>
    /\ wbOpen' = FALSE
    /\ ret' = "none"
    /\ serr' = "none"
    /\ before' = Missing
    /\ deleted' = FALSE
    /\ created' = FALSE
    /\ saved' = FALSE
    /\ UNCHANGED fs
    /\ UNCHANGED loadVars

NextSave ==
    \/ CallSave
    \/ SaveValidate
    \/ Acquire
    \/ Conflict
    \/ WriteSheet
    \/ Save
    \/ Leave

\* --------------------------------------------------------- specifications
InitLoad ==
    /\ LoadLocalsInit
    /\ LoadInputs
    /\ fs = [p \in Paths |-> Missing]
    /\ SaveIdle

SpecLoad == InitLoad /\ [][NextLoad]_vars

InitSave ==
    /\ LoadLocalsInit
    /\ ScenarioInputs
    /\ fs \in [Paths -> {Missing, SeedDoc}]
    /\ SaveIdle

SpecSave == InitSave /\ [][NextSave]_vars

\* ------------------------------------------------------------------ claims
\* The scan has run to its end (by exhaustion or by break) without raising.
ScanCompleted ==
    pc \in {"foot", "write", "done"} \/ err \in {"ValueError:skip_foot", "NoDataError"}

\* The rows were handed to serialization.
Serialized == pc = "done" \/ err = "NoDataError"

\* C1: footer trimming. Whenever skip_foot = n is supplied and leaves at
\* least one data row, the rows handed to serialization are the collected
\* rows without their last n, in order.
C1_FooterTrim ==
    (Serialized /\ skip_foot # Unset /\ skip_foot < Len(rows) - 1)
        => written = SubSeq(rows, 1, Len(rows) - skip_foot)

\* C2: footer guard. Whenever skip_foot is supplied and is not less than the
\* number of collected rows minus one, the call raises after the scan and
\* never reaches serialization, whatever the number of collected rows.
C2_FooterGuard ==
    (skip_foot # Unset /\ (pc = "write" \/ Serialized))
        => skip_foot < Len(rows) - 1

\* The region the scan is to collect: the rows from the first row after the
\* k skipped ones that holds a cell satisfying the anchor predicate, as long
\* as the cell in the anchor column is not empty.
SkipTop == IF skip_rows = Unset THEN 0 ELSE skip_rows

AnchorRows(g, zc, k) ==
    {r \in (k + 1)..Len(g) : FirstMatch(zc, g[r]) >= 0}

AnchorRow(g, zc, k) ==
    CHOOSE r \in AnchorRows(g, zc, k) : \A q \in AnchorRows(g, zc, k) : r <= q

RECURSIVE RunFrom(_, _, _)
RunFrom(g, c, r) ==
    IF r > Len(g) \/ g[r][c + 1] = None THEN <<>>
    ELSE <<r>> \o RunFrom(g, c, r + 1)

ClaimedRun(g, zc, k) ==
    IF AnchorRows(g, zc, k) = {} THEN <<>>
    ELSE RunFrom(g, FirstMatch(zc, g[AnchorRow(g, zc, k)]), AnchorRow(g, zc, k))

\* C3: collected region. When the scan has completed, the collected rows are
\* exactly the maximal run of rows with a non-empty anchor-column cell that
\* starts at the first row after skip_top holding a cell that satisfies the
\* anchor predicate, and the anchor column is that row's leftmost match.
C3_CollectedRegion ==
    ScanCompleted =>
        /\ taken = ClaimedRun(grid, zero_cell, SkipTop)
        /\ taken # <<>> => i_col = FirstMatch(zero_cell, grid[taken[1]])

\* The columns j >= c whose header cell satisfies the column predicate, in
\* increasing order (0-based).
RECURSIVE ClaimedIdxs(_, _, _)
ClaimedIdxs(tc, row, j) ==
    IF j >= Len(row) THEN <<>>
    ELSE (IF test_cols(tc, row[j + 1]) THEN <<j>> ELSE <<>>)
         \o ClaimedIdxs(tc, row, j + 1)

\* C4: column selection. No index outside the row is read; once the header
\* is read, the frozen indices are the positions from the anchor column on
\* whose header cell satisfies the column predicate, and the header and every
\* later collected row hold the cells at those positions, in order.
C4_ColumnSelection ==
    /\ err # "IndexError"
    /\ head_read =>
        LET want == ClaimedIdxs(take_cols, grid[taken[1]], i_col)
        IN  /\ idxs = want
            /\ rows[1] = HeaderData(RowData(grid[taken[1]], want))
            /\ \A k \in 2..Len(rows) : rows[k] = RowData(grid[taken[k]], want)

\* C5: skip_top. With no anchor predicate and skip_rows = k below the number
\* of sheet rows, a header that is read is sheet row k + 1 taken from column
\* 0, so that exactly the first k rows are excluded.
C5_SkipTop ==
    (head_read /\ zero_cell.kind = "none" /\ skip_rows # Unset /\ skip_rows < Len(grid))
        => /\ taken[1] = skip_rows + 1
           /\ i_col = 0
           /\ take_cols.kind = "none"
                => rows[1] = HeaderData(grid[skip_rows + 1])

\* The sheet a selector names: position i + 1 for an index i in range, the
\* position of the sheet with that name, 0 when there is no such sheet.
ClaimedSheet(b, sel) ==
    CASE sel.kind = "int" -> IF sel.i + 1 \in 1..Len(b) THEN sel.i + 1 ELSE 0
      [] sel.kind = "str" -> SheetNamed(b, sel.name)
      [] OTHER -> 0

\* C6: sheet selection. The sheet that is scanned is the one the selector
\* names; a selector naming no sheet never leads to a scan of another one.
C6_SheetSelection ==
    ws # 0 => ws = ClaimedSheet(book, sheet)

\* A source the claim accepts: a binary stream, or an existing path with
\* extension xlsx or xls.
Acceptable(f) ==
    \/ f.kind = "stream"
    \/ f.kind \in {"str", "Path"} /\ f.exists /\ f.suffix \in {".xlsx", ".xls"}

FileErrors == {"ValueError:file", "ValueError:suffix", "ValueError:not found"}

\* C7: source validation. Once the source check is over, it has raised a
\* usage error exactly when the source is not acceptable.
C7_SourceValidation ==
    pc # "validate" => (err \in FileErrors <=> ~Acceptable(file))

\* C8: destination validation. Once the destination check is over, it has
\* raised a usage error exactly when the destination is not a path ending
\* in .xlsx, and then no document was opened, changed or saved.
C8_DestValidation ==
    spc \notin {"idle", "validate"} =>
        (serr \in {"ValueError:path", "ValueError:suffix"}
            <=> ~(dest.kind \in {"str", "Path"} /\ dest.suffix = ".xlsx"))

\* The call is over: it returned or raised.
CallOver == spc \in {"returned", "raised"}

\* The call's target sheet name is in the document stored at the destination.
Collides ==
    /\ dest.kind \in {"str", "Path"}
    /\ before.exists
    /\ TargetName(sheet_name) \in names(before.sheets)

\* C9: non-overwrite collision. A call with policy skip or assert whose
\* sheet name is in the stored document ends with the document unchanged, no
\* sheet deleted or created, nothing saved and the handle closed; skip
\* returns the table, assert raises the collision error.
C9_NoOverwriteCollision ==
    (CallOver /\ Collides /\ if_sheet_exists \in {"skip", "assert"}) =>
        /\ fs[dest.p] = before
        /\ ~deleted /\ ~created /\ ~saved /\ ~wbOpen
        /\ if_sheet_exists = "skip" => (spc = "returned" /\ ret = "df")
        /\ if_sheet_exists = "assert" => serr = "AssertionError"

\* The rows of the sheet called title, <<>> when there is none.
RowsOf(sheets, title) ==
    IF title \in names(sheets)
    THEN sheets[CHOOSE k \in 1..Len(sheets) : sheets[k].name = title].rows
    ELSE <<>>

UniqueNames(sheets) ==
    \A i, j \in 1..Len(sheets) : sheets[i].name = sheets[j].name => i = j

\* C10: overwrite and append. In every stored document each sheet name
\* occurs once; after a successful export with policy overwrite to an
\* existing document, the sheet of the exported name holds the table's
\* header and rows (nothing for an empty table), and the other sheets are
\* the ones the document had, with the contents they had.
C10_OverwriteAppend ==
    /\ \A p \in Paths : UniqueNames(fs[p].sheets)
    /\ (spc = "returned" /\ saved /\ if_sheet_exists = "overwrite" /\ before.exists) =>
        LET after == fs[dest.p].sheets
            title == TargetName(sheet_name)
        IN  /\ names(after) = names(before.sheets) \cup {title}
            /\ RowsOf(after, title) = Materialize(df)
            /\ \A n \in names(before.sheets) \ {title} :
                   RowsOf(after, n) = RowsOf(before.sheets, n)

\* An overwrite export replaced a sheet of an existing two-sheet document by
\* a table of two rows.
C10_Witness ==
    /\ spc = "returned" /\ saved /\ deleted
    /\ if_sheet_exists = "overwrite"
    /\ Len(before.sheets) = 2
    /\ Len(df.data) = 2
    /\ RowsOf(before.sheets, TargetName(sheet_name)) # Materialize(df)

====
